---------------------------- MODULE Spec2Model ----------------------------
(***************************************************************************)
(* Model of the hdf5 building block of hpccm                               *)
(* (src/hpccm/building_blocks/hdf5.py).                                    *)
(*                                                                         *)
(* Python strings are sequences of one-character strings, so that          *)
(* str.format, os.path.join and re.match are computed on characters.      *)
(* Keyword arguments are functions from the keys passed to their values.  *)
(* An hdf5 object is a record of its attributes; `instructions` is the    *)
(* list bb_base accumulates through `self += ...`.                         *)
(***************************************************************************)
EXTENDS Integers, Sequences, FiniteSets, TLC

VARIABLES
    g_linux_distro,   \* hpccm.config.g_linux_distro
    kwargs,           \* the keyword arguments the caller constructs hdf5 with
    objs,             \* the hdf5 objects constructed so far, in order
    attempts,         \* number of hdf5(**kwargs) calls made
    raised,           \* exception raised by the last constructor call, or "none"
    calls             \* log of runtime() calls: [obj, from, ret]

vars == <<g_linux_distro, kwargs, objs, attempts, raised, calls>>

\* ------------------------------------------------------------------ bounds
MaxObjs == 2
MaxCalls == 2

\* ------------------------------------------------------- string literals
Str_empty == <<>>
Str_enable_cxx == <<"-", "-", "e", "n", "a", "b", "l", "e", "-", "c", "x", "x">>
Str_enable_fortran == <<"-", "-", "e", "n", "a", "b", "l", "e", "-", "f", "o", "r", "t", "r", "a", "n">>
Str_default_prefix == <<"/", "u", "s", "r", "/", "l", "o", "c", "a", "l", "/", "h", "d", "f", "5">>
Str_default_baseurl == <<"h", "t", "t", "p", ":", "/", "/", "w", "w", "w", ".", "h", "d", "f", "g", "r", "o", "u", "p", ".", "o", "r", "g", "/", "f", "t", "p", "/", "H", "D", "F", "5", "/", "r", "e", "l", "e", "a", "s", "e", "s">>
Str_default_version == <<"1", ".", "1", "0", ".", "4">>
Str_wd == <<"/", "v", "a", "r", "/", "t", "m", "p">>
Str_bin == <<"b", "i", "n">>
Str_lib == <<"l", "i", "b">>
Str_PATH_suffix == <<":", "$", "P", "A", "T", "H">>
Str_LD_suffix == <<":", "$", "L", "D", "_", "L", "I", "B", "R", "A", "R", "Y", "_", "P", "A", "T", "H">>
Str_HDF5 == <<"H", "D", "F", "5">>
Str_HDF5_version == <<"H", "D", "F", "5", " ", "v", "e", "r", "s", "i", "o", "n", " ">>
Str_hdf5_dash == <<"h", "d", "f", "5", "-">>
Str_tar_bz2 == <<".", "t", "a", "r", ".", "b", "z", "2">>
Str_src == <<"/", "s", "r", "c", "/">>
Str_slash == <<"/">>
Str_dot == <<".">>
Str_stage0 == <<"0">>
Str_stage1 == <<"1">>
Dir_relative == <<"s", "o", "u", "r", "c", "e", "s", "/", "h", "d", "f", "5", "-", "1", ".", "1", "0", ".", "1">>
Dir_absolute == <<"/", "u", "s", "r", "/", "l", "o", "c", "a", "l">>
Prefix_opt == <<"/", "o", "p", "t", "/", "h", "d", "f", "5", "/", "1", ".", "1", "0", ".", "1">>
Prefix_tmp == <<"/", "v", "a", "r", "/", "t", "m", "p", "/", "h", "d", "f", "5", "-", "1", ".", "1", "0", ".", "1">>
Ver_1_10_1 == <<"1", ".", "1", "0", ".", "1">>
Ver_1_x == <<"1", ".", "x">>
Ver_10 == <<"1", "0">>

Digits == {"0", "1", "2", "3", "4", "5", "6", "7", "8", "9"}

\* ------------------------------------------------------- library helpers

\* dict.get(key, default) on the keyword arguments
Get(kw, key, default) == IF key \in DOMAIN kw THEN kw[key] ELSE default

\* str.startswith
StartsWith(s, p) == Len(s) >= Len(p) /\ SubSeq(s, 1, Len(p)) = p

\* posixpath.join(a, b) for two components
path_join(a, b) ==
    IF StartsWith(b, Str_slash) THEN b
    ELSE IF a = Str_empty \/ a[Len(a)] = "/" THEN a \o b
    ELSE a \o Str_slash \o b

\* length of the longest run of digits of s starting at position i (\d+)
RECURSIVE DigitRun(_, _)
DigitRun(s, i) ==
    IF i <= Len(s) /\ s[i] \in Digits THEN 1 + DigitRun(s, i + 1) ELSE 0

\* re.match(r'(?P<major>\d+)\.(?P<minor>\d+)', version): the groups, or
\* matched = FALSE for None
re_match_version(version) ==
    LET n == DigitRun(version, 1)
        m == DigitRun(version, n + 2)
    IN  IF n >= 1 /\ n + 1 <= Len(version) /\ version[n + 1] = "." /\ m >= 1
        THEN [matched |-> TRUE,
              major |-> SubSeq(version, 1, n),
              minor |-> SubSeq(version, n + 2, n + 1 + m)]
        ELSE [matched |-> FALSE]

\* ------------------------------------------- collaborators (not in src/)

\* hpccm.toolchain.toolchain(): the default, empty toolchain (opaque)
toolchain_default == "toolchain()"

\* bb_base and the templates' __init__: the attributes hdf5 inherits.
\* hpccm.templates.ldconfig reads the `ldconfig` keyword (default False).
base_init(kw) ==
    [ldconfig |-> Get(kw, "ldconfig", FALSE), instructions |-> <<>>]

\* step generators of the templates, as opaque step descriptors
download_step(url, directory) ==
    [kind |-> "download", url |-> url, directory |-> directory]
untar_step(tarball, directory) ==
    [kind |-> "untar", tarball |-> tarball, directory |-> directory]
configure_step(self, directory, toolchain) ==
    [kind |-> "configure", directory |-> directory, toolchain |-> toolchain,
     opts |-> self.configure_opts, prefix |-> self.prefix]
build_step == [kind |-> "build"]
check_step == [kind |-> "check"]
install_step == [kind |-> "install"]
ldcache_step(directory) == [kind |-> "ldcache", directory |-> directory]
cleanup_step(items) == [kind |-> "cleanup", items |-> items]

\* primitives, as opaque instruction descriptors
comment(text) == [kind |-> "comment", text |-> text]
packages(ospackages) == [kind |-> "packages", ospackages |-> ospackages]
copy(from, src, dest) == [kind |-> "copy", from |-> from, src |-> src, dest |-> dest]
shell(commands) == [kind |-> "shell", commands |-> commands]
environment(variables) == [kind |-> "environment", variables |-> variables]

\* copy() without _from: a copy from the local build context
NoStage == <<"<", "c", "o", "n", "t", "e", "x", "t", ">">>

\* --------------------------------------------------------- hdf5.__init__

\* lines 113-132: the attributes before __distro() runs
hdf5_init(kw) ==
    LET base == base_init(kw)
        prefix == Get(kw, "prefix", Str_default_prefix)
    IN  [ldconfig |-> base.ldconfig,
         instructions |-> base.instructions,
         configure_opts |-> Get(kw, "configure_opts",
                                <<Str_enable_cxx, Str_enable_fortran>>),
         prefix |-> prefix,
         baseurl |-> Get(kw, "baseurl", Str_default_baseurl),
         check |-> Get(kw, "check", FALSE),
         directory |-> Get(kw, "directory", Str_empty),
         ospackages |-> Get(kw, "ospackages", <<>>),
         runtime_ospackages |-> <<>>,
         toolchain |-> Get(kw, "toolchain", toolchain_default),
         version |-> Get(kw, "version", Str_default_version),
         commands |-> <<>>,
         environment_variables |->
             [k \in {"HDF5_DIR", "PATH"} |->
                 IF k = "HDF5_DIR" THEN prefix
                 ELSE path_join(prefix, Str_bin) \o Str_PATH_suffix],
         wd |-> Str_wd]

\* --------------------------------------------------------- hdf5.__distro

\* the else branch: raise RuntimeError('Unknown Linux distribution')
distro_raises(distro) == distro \notin {"UBUNTU", "CENTOS"}

distro_default_ospackages(distro) ==
    IF distro = "UBUNTU"
    THEN <<"bzip2", "file", "make", "wget", "zlib1g-dev">>
    ELSE <<"bzip2", "file", "make", "wget", "zlib-devel">>

distro_runtime_ospackages(distro) ==
    IF distro = "UBUNTU" THEN <<"zlib1g">> ELSE <<"zlib">>

\* variant: the defaults replace whatever the user passed
distro_ospackages_always_default(ospackages, distro) ==
    distro_default_ospackages(distro)

\* `if not self.__ospackages:` the user's list overrides the defaults
distro_ospackages(ospackages, distro) ==
    IF ospackages = <<>> THEN distro_default_ospackages(distro)
    ELSE ospackages

hdf5_distro(self, distro) ==
    [self EXCEPT !.ospackages = distro_ospackages(self.ospackages, distro),
                 !.runtime_ospackages = distro_runtime_ospackages(distro)]

\* ---------------------------------------------------------- hdf5.__setup

\* variant: the version is parsed only on the download branch
setup_raises_only_download(self) ==
    self.directory = Str_empty /\ ~re_match_version(self.version).matched

\* lines 186-188: match is None for a version that does not start with
\* digits '.' digits, and match.groupdict() raises AttributeError
setup_raises(self) == ~re_match_version(self.version).matched

major_minor(version) ==
    LET match == re_match_version(version)
    IN  match.major \o Str_dot \o match.minor

\* 'hdf5-{}.tar.bz2'.format(version)
tarball(version) == Str_hdf5_dash \o version \o Str_tar_bz2

\* 'hdf5-{}'.format(version)
extracted(version) == Str_hdf5_dash \o version

\* '{0}/hdf5-{1}/hdf5-{2}/src/{3}'.format(baseurl, major_minor, version, tarball)
url(baseurl, version) ==
    baseurl \o Str_slash \o Str_hdf5_dash \o major_minor(version)
            \o Str_slash \o Str_hdf5_dash \o version
            \o Str_src \o tarball(version)

\* variant: the download branch is taken whatever `directory` is
setup_acquire_always_download(self) ==
    [self EXCEPT !.commands = @ \o
        <<download_step(url(self.baseurl, self.version), self.wd),
          untar_step(path_join(self.wd, tarball(self.version)), self.wd),
          configure_step(self, path_join(self.wd, extracted(self.version)),
                         self.toolchain)>>]

\* lines 194-208: source acquisition and configure
setup_acquire(self) ==
    IF self.directory # Str_empty
    THEN [self EXCEPT !.commands = @ \o
            <<configure_step(self, path_join(self.wd, self.directory),
                             self.toolchain)>>]
    ELSE [self EXCEPT !.commands = @ \o
            <<download_step(url(self.baseurl, self.version), self.wd),
              untar_step(path_join(self.wd, tarball(self.version)), self.wd),
              configure_step(self, path_join(self.wd, extracted(self.version)),
                             self.toolchain)>>]

\* variant: the check step is appended after the install step
setup_build_check_after_install(self) ==
    [self EXCEPT !.commands = @ \o <<build_step>>
                    \o <<install_step>>
                    \o (IF self.check THEN <<check_step>> ELSE <<>>)]

\* lines 210-216: build, optional check, install
setup_build(self) ==
    [self EXCEPT !.commands = @ \o <<build_step>>
                    \o (IF self.check THEN <<check_step>> ELSE <<>>)
                    \o <<install_step>>]

\* variant: LD_LIBRARY_PATH is set whether or not ldconfig is requested
setup_libpath_always_env(self) ==
    LET libpath == path_join(self.prefix, Str_lib)
        withenv == [self EXCEPT !.environment_variables =
                       ("LD_LIBRARY_PATH" :> (libpath \o Str_LD_suffix)) @@ @]
    IN  IF self.ldconfig
        THEN [withenv EXCEPT !.commands = Append(@, ldcache_step(libpath))]
        ELSE withenv

\* lines 218-223: linker cache or LD_LIBRARY_PATH
setup_libpath(self) ==
    LET libpath == path_join(self.prefix, Str_lib)
    IN  IF self.ldconfig
        THEN [self EXCEPT !.commands = Append(@, ldcache_step(libpath))]
        ELSE [self EXCEPT !.environment_variables =
                ("LD_LIBRARY_PATH" :> (libpath \o Str_LD_suffix)) @@ @]

\* variant: the cleanup paths are not joined to the working directory
setup_cleanup_without_wd(self) ==
    IF self.directory # Str_empty
    THEN [self EXCEPT !.commands =
            Append(@, cleanup_step(<<self.directory>>))]
    ELSE [self EXCEPT !.commands =
            Append(@, cleanup_step(
                <<tarball(self.version), extracted(self.version)>>))]

\* lines 225-234: cleanup of the acquired source
setup_cleanup(self) ==
    IF self.directory # Str_empty
    THEN [self EXCEPT !.commands =
            Append(@, cleanup_step(<<path_join(self.wd, self.directory)>>))]
    ELSE [self EXCEPT !.commands =
            Append(@, cleanup_step(
                <<path_join(self.wd, tarball(self.version)),
                  path_join(self.wd, extracted(self.version))>>))]

hdf5_setup(self) ==
    setup_cleanup(setup_libpath(setup_build(setup_acquire(self))))

\* --------------------------------------------------- hdf5.__instructions

\* lines 146-149: the label
instructions_comment(self) ==
    IF self.directory # Str_empty
    THEN comment(Str_HDF5)
    ELSE comment(Str_HDF5_version \o self.version)

\* lines 153-156: the copy from the local build context
instructions_copy(self) ==
    IF self.directory # Str_empty
    THEN <<copy(NoStage, self.directory, path_join(self.wd, self.directory))>>
    ELSE <<>>

hdf5_instructions(self) ==
    [self EXCEPT !.instructions = @
        \o <<instructions_comment(self)>>
        \o <<packages(self.ospackages)>>
        \o instructions_copy(self)
        \o <<shell(self.commands)>>
        \o (IF DOMAIN self.environment_variables # {}
            THEN <<environment(self.environment_variables)>>
            ELSE <<>>)]

\* ------------------------------------------------------ the constructor

\* hdf5(**kw) under the distribution `distro`: the exception raised, or
\* the constructed object
hdf5(kw, distro) ==
    LET s0 == hdf5_init(kw)
    IN  IF distro_raises(distro) THEN [exc |-> "RuntimeError"]
        ELSE LET s1 == hdf5_distro(s0, distro)
             IN  IF setup_raises(s1) THEN [exc |-> "AttributeError"]
                 ELSE [exc |-> "none",
                       self |-> hdf5_instructions(hdf5_setup(s1))]

\* ---------------------------------------------------------- hdf5.runtime

\* variant: the ldconfig flag is not consulted and the cache is always refreshed
runtime_always_ldcache(self, from) ==
    [self |-> self,
     ret |-> <<comment(Str_HDF5)>>
             \o <<packages(self.runtime_ospackages)>>
             \o <<copy(from, self.prefix, self.prefix)>>
             \o <<shell(<<ldcache_step(path_join(self.prefix, Str_lib))>>)>>
             \o (IF DOMAIN self.environment_variables # {}
                 THEN <<environment(self.environment_variables)>>
                 ELSE <<>>)]

\* variant: the runtime instructions are added to the object (`self +=`)
\* as well as returned
runtime_accumulating(self, from) ==
    LET ret == <<comment(Str_HDF5)>>
               \o <<packages(self.runtime_ospackages)>>
               \o <<copy(from, self.prefix, self.prefix)>>
               \o (IF self.ldconfig
                   THEN <<shell(<<ldcache_step(path_join(self.prefix, Str_lib))>>)>>
                   ELSE <<>>)
               \o (IF DOMAIN self.environment_variables # {}
                   THEN <<environment(self.environment_variables)>>
                   ELSE <<>>)
    IN  [self |-> [self EXCEPT !.instructions = @ \o ret], ret |-> ret]

\* the object after the call and the instructions returned; rendering the
\* instructions to text is left to the primitives
runtime(self, from) ==
    [self |-> self,
     ret |-> <<comment(Str_HDF5)>>
             \o <<packages(self.runtime_ospackages)>>
             \o <<copy(from, self.prefix, self.prefix)>>
             \o (IF self.ldconfig
                 THEN <<shell(<<ldcache_step(path_join(self.prefix, Str_lib))>>)>>
                 ELSE <<>>)
             \o (IF DOMAIN self.environment_variables # {}
                 THEN <<environment(self.environment_variables)>>
                 ELSE <<>>)]

\* ------------------------------------------------------------- inputs

Distros == {"UBUNTU", "CENTOS", "UNKNOWN"}
Directories == {Dir_relative, Dir_absolute}
Versions == {Str_empty, Ver_1_10_1, Ver_1_x, Ver_10}
Prefixes == {Prefix_opt, Prefix_tmp}
OsPackages == {<<>>, <<"gcc", "zlib1g-dev">>}
StageArgs == {<<>>, "_from" :> Str_stage1}

\* a keyword either not passed or passed with one of the values
Opt(key, values) == {<<>>} \cup {key :> v : v \in values}

KwargsSet ==
    {d @@ v @@ p @@ c @@ l @@ o :
        d \in Opt("directory", Directories),
        v \in Opt("version", Versions),
        p \in Opt("prefix", Prefixes),
        c \in Opt("check", {TRUE}),
        l \in Opt("ldconfig", {TRUE}),
        o \in Opt("ospackages", OsPackages)}

\* ------------------------------------------------------- state machine

Init ==
    /\ g_linux_distro \in Distros
    /\ kwargs \in KwargsSet
    /\ objs = <<>>
    /\ attempts = 0
    /\ raised = "none"
    /\ calls = <<>>

\* h = hdf5(**kwargs)
Construct ==
    /\ attempts < MaxObjs
    /\ attempts' = attempts + 1
    /\ LET r == hdf5(kwargs, g_linux_distro)
       IN  /\ raised' = r.exc
           /\ objs' = IF r.exc = "none" THEN Append(objs, r.self) ELSE objs
    /\ UNCHANGED <<g_linux_distro, kwargs, calls>>

\* objs[i].runtime(**a)
Runtime(i, a) ==
    /\ Len(calls) < MaxCalls
    /\ LET from == Get(a, "_from", Str_stage0)
           r == runtime(objs[i], from)
       IN  /\ objs' = [objs EXCEPT ![i] = r.self]
           /\ calls' = Append(calls, [obj |-> i, from |-> from, ret |-> r.ret])
    /\ UNCHANGED <<g_linux_distro, kwargs, attempts, raised>>

Next ==
    \/ Construct
    \/ \E i \in 1..Len(objs), a \in StageArgs : Runtime(i, a)

Spec == Init /\ [][Next]_vars

\* --------------------------------------------- the caller's description

sourceDirectory == Get(kwargs, "directory", Str_empty)
installPrefix == Get(kwargs, "prefix", Str_default_prefix)
runCheck == Get(kwargs, "check", FALSE)
registerInLinkerCache == Get(kwargs, "ldconfig", FALSE)
buildOsPackages == Get(kwargs, "ospackages", <<>>)
versionGiven == "version" \in DOMAIN kwargs
Constructed == 1..Len(objs)

\* ------------------------------------------ observations of a recipe

Range(s) == {s[i] : i \in 1..Len(s)}

\* the steps of the instruction list, in order: the copy instructions and
\* the commands of the shell instructions
RECURSIVE StepsOf(_)
StepsOf(ins) ==
    IF ins = <<>> THEN <<>>
    ELSE LET h == Head(ins)
         IN  (IF h.kind = "copy" THEN <<h>>
              ELSE IF h.kind = "shell" THEN h.commands
              ELSE <<>>) \o StepsOf(Tail(ins))

Steps(self) == StepsOf(self.instructions)
Kinds(s) == [i \in 1..Len(s) |-> s[i].kind]
OfKind(s, kind) == SelectSeq(s, LAMBDA x : x.kind = kind)
Count(s, kind) == Len(OfKind(s, kind))
The(s, kind) == OfKind(s, kind)[1]

\* the environment mapping of an instruction list
EnvOf(ins) == The(ins, "environment").variables

\* the label, steps, packages and environment mapping an object exposes
Recipe(self) ==
    [label |-> The(self.instructions, "comment").text,
     packages |-> The(self.instructions, "packages").ospackages,
     runtime_packages |-> self.runtime_ospackages,
     steps |-> Steps(self),
     env |-> EnvOf(self.instructions)]

\* the last component of a path or URL
RECURSIVE Basename(_)
Basename(s) ==
    IF s = <<>> \/ s[Len(s)] = "/" THEN <<>>
    ELSE Append(Basename(SubSeq(s, 1, Len(s) - 1)), s[Len(s)])

\* s without the suffix x
StripSuffix(s, x) == SubSeq(s, 1, Len(s) - Len(x))

\* the directory p is q or an ancestor of q
PathContains(p, q) ==
    \/ p = q
    \/ StartsWith(q, IF p[Len(p)] = "/" THEN p ELSE p \o Str_slash)

\* v begins with two dot-separated numeric components
BeginsMajorMinor(v) ==
    \E n, m \in 1..Len(v) :
        /\ n + 1 + m <= Len(v)
        /\ \A k \in 1..n : v[k] \in Digits
        /\ v[n + 1] = "."
        /\ \A k \in (n + 2)..(n + 1 + m) : v[k] \in Digits

\* every instruction of a complete recipe is there, once
Complete(self) ==
    /\ Count(self.instructions, "comment") = 1
    /\ Count(self.instructions, "packages") = 1
    /\ Count(self.instructions, "shell") = 1
    /\ Count(self.instructions, "environment") = 1
    /\ Count(Steps(self), "cleanup") = 1

\* ----------------------------------------------------------- the claims

\* C1: the build steps of every constructed component are, in this order:
\* the acquisition (one copy, or one download then one extract), configure,
\* build, check iff runCheck, install, linker-cache refresh iff
\* registerInLinkerCache, cleanup.
C1_StepOrder ==
    \A i \in Constructed :
        Kinds(Steps(objs[i])) =
            (IF sourceDirectory # Str_empty THEN <<"copy">>
             ELSE <<"download", "untar">>)
            \o <<"configure", "build">>
            \o (IF runCheck THEN <<"check">> ELSE <<>>)
            \o <<"install">>
            \o (IF registerInLinkerCache THEN <<"ldcache">> ELSE <<>>)
            \o <<"cleanup">>

C1_Witness ==
    /\ Len(objs) > 0
    /\ runCheck
    /\ registerInLinkerCache
    /\ sourceDirectory = Str_empty
    /\ Count(Steps(objs[1]), "check") = 1

\* C2: a recipe has exactly one copy step and no download or extract step
\* when sourceDirectory is non-empty (whatever the version), and exactly one
\* download and one extract step and no copy step when it is empty.
C2_OneAcquisition ==
    \A i \in Constructed :
        LET s == Steps(objs[i])
        IN  IF sourceDirectory # Str_empty
            THEN /\ Count(s, "copy") = 1
                 /\ Count(s, "download") = 0
                 /\ Count(s, "untar") = 0
            ELSE /\ Count(s, "copy") = 0
                 /\ Count(s, "download") = 1
                 /\ Count(s, "untar") = 1

C2_Witness ==
    /\ Len(objs) > 0
    /\ sourceDirectory # Str_empty
    /\ versionGiven
    /\ Count(Steps(objs[1]), "copy") = 1

\* C3: the cleanup step removes exactly what the acquisition brought in and
\* configure runs in that source tree: the copy's destination for a local
\* source; the downloaded tarball (the path given to the extract step) and
\* the directory it extracts to for a downloaded source.
C3_CleanupMatchesAcquisition ==
    \A i \in Constructed :
        LET s == Steps(objs[i])
            items == Range(The(s, "cleanup").items)
            confdir == The(s, "configure").directory
        IN  IF sourceDirectory # Str_empty
            THEN /\ items = {The(s, "copy").dest}
                 /\ confdir = The(s, "copy").dest
            ELSE LET dl == The(s, "download")
                     file == Basename(dl.url)
                     tarpath == dl.directory \o Str_slash \o file
                     tree == The(s, "untar").directory \o Str_slash
                                \o StripSuffix(file, Str_tar_bz2)
                 IN  /\ The(s, "untar").tarball = tarpath
                     /\ items = {tarpath, tree}
                     /\ confdir = tree

C3_Witness ==
    /\ Len(objs) > 0
    /\ sourceDirectory = Str_empty
    /\ versionGiven
    /\ Len(The(Steps(objs[1]), "cleanup").items) = 2

\* C4: with registerInLinkerCache the steps refresh the linker cache over
\* <installPrefix>/lib and the environment has no LD_LIBRARY_PATH entry;
\* without it there is no refresh step and LD_LIBRARY_PATH prepends
\* <installPrefix>/lib. Either way HDF5_DIR is installPrefix and PATH
\* prepends <installPrefix>/bin.
C4_LibraryRegistration ==
    \A i \in Constructed :
        LET s == Steps(objs[i])
            env == EnvOf(objs[i].instructions)
            libpath == installPrefix \o Str_slash \o Str_lib
        IN  /\ Count(objs[i].instructions, "environment") = 1
            /\ env["HDF5_DIR"] = installPrefix
            /\ env["PATH"] = installPrefix \o Str_slash \o Str_bin \o Str_PATH_suffix
            /\ IF registerInLinkerCache
               THEN /\ Count(s, "ldcache") = 1
                    /\ The(s, "ldcache").directory = libpath
                    /\ DOMAIN env = {"HDF5_DIR", "PATH"}
               ELSE /\ Count(s, "ldcache") = 0
                    /\ DOMAIN env = {"HDF5_DIR", "PATH", "LD_LIBRARY_PATH"}
                    /\ env["LD_LIBRARY_PATH"] = libpath \o Str_LD_suffix

C4_Witness ==
    /\ Len(objs) > 0
    /\ registerInLinkerCache
    /\ "prefix" \in DOMAIN kwargs
    /\ Count(Steps(objs[1]), "ldcache") = 1

\* C5: the packages instruction installs the caller's build packages when
\* that list is non-empty and the distribution's defaults when it is empty;
\* the runtime packages are the distribution's defaults in both cases.
C5_Packages ==
    LET debian == g_linux_distro = "UBUNTU"
    IN  /\ \A i \in Constructed :
            /\ Count(objs[i].instructions, "packages") = 1
            /\ Range(The(objs[i].instructions, "packages").ospackages) =
                  IF buildOsPackages # <<>> THEN Range(buildOsPackages)
                  ELSE IF debian
                       THEN {"bzip2", "file", "make", "wget", "zlib1g-dev"}
                       ELSE {"bzip2", "file", "make", "wget", "zlib-devel"}
            /\ Range(objs[i].runtime_ospackages) =
                  IF debian THEN {"zlib1g"} ELSE {"zlib"}
        /\ \A c \in 1..Len(calls) :
            Range(The(calls[c].ret, "packages").ospackages) =
                  IF debian THEN {"zlib1g"} ELSE {"zlib"}

C5_Witness ==
    /\ Len(objs) > 0
    /\ Len(calls) > 0
    /\ g_linux_distro = "CENTOS"
    /\ buildOsPackages # <<>>
    /\ The(objs[1].instructions, "packages").ospackages = buildOsPackages

\* C6: with a non-empty sourceDirectory the version is ignored: construction
\* succeeds whatever the version is, and the recipe is the one built when no
\* version is passed.
C6_VersionIgnored ==
    (attempts > 0 /\ sourceDirectory # Str_empty /\ ~distro_raises(g_linux_distro))
    => /\ raised = "none"
       /\ Len(objs) = attempts
       /\ LET noversion == [k \in DOMAIN kwargs \ {"version"} |-> kwargs[k]]
          IN  \A i \in Constructed :
                Recipe(objs[i]) = Recipe(hdf5(noversion, g_linux_distro).self)

\* C7: construction raises and exposes nothing when the distribution is
\* unknown, or when no sourceDirectory is given and the version is absent or
\* does not begin with two dot-separated numbers; in every other case it
\* succeeds with a complete recipe.
C7_AllOrNothing ==
    attempts > 0 =>
        LET mustfail ==
                \/ g_linux_distro \notin {"UBUNTU", "CENTOS"}
                \/ /\ sourceDirectory = Str_empty
                   /\ \/ ~versionGiven
                      \/ ~BeginsMajorMinor(kwargs["version"])
        IN  IF mustfail
            THEN raised # "none" /\ objs = <<>>
            ELSE /\ raised = "none"
                 /\ Len(objs) = attempts
                 /\ \A i \in Constructed : Complete(objs[i])

\* C7, as amended: construction raises and exposes nothing when the
\* distribution is unknown or when the version in effect (the caller's, or
\* 1.10.4 when none is passed) does not begin with two dot-separated
\* numbers, with or without a sourceDirectory; in every other case it
\* succeeds with a complete recipe.
C7_AllOrNothing_Amended ==
    attempts > 0 =>
        LET version == Get(kwargs, "version", Str_default_version)
            mustfail ==
                \/ g_linux_distro \notin {"UBUNTU", "CENTOS"}
                \/ ~BeginsMajorMinor(version)
        IN  IF mustfail
            THEN raised # "none" /\ objs = <<>>
            ELSE /\ raised = "none"
                 /\ Len(objs) = attempts
                 /\ \A i \in Constructed : Complete(objs[i])

C7_Witness ==
    /\ attempts = 2
    /\ raised = "AttributeError"
    /\ objs = <<>>
    /\ versionGiven
    /\ g_linux_distro = "CENTOS"

\* C8: runtime(stageId) returns, in order, the label, the install of the
\* distribution's runtime packages, one copy from stageId of installPrefix
\* onto installPrefix, a linker-cache refresh over <installPrefix>/lib iff
\* registerInLinkerCache, and the environment mapping of the build recipe.
C8_RuntimeProjection ==
    \A c \in 1..Len(calls) :
        LET ret == calls[c].ret
            self == objs[calls[c].obj]
            env == EnvOf(self.instructions)
        IN  /\ Kinds(ret) = <<"comment", "packages", "copy">>
                    \o (IF registerInLinkerCache THEN <<"shell">> ELSE <<>>)
                    \o <<"environment">>
            /\ ret[2].ospackages =
                  (IF g_linux_distro = "UBUNTU" THEN <<"zlib1g">> ELSE <<"zlib">>)
            /\ ret[3].from = calls[c].from
            /\ ret[3].src = installPrefix
            /\ ret[3].dest = installPrefix
            /\ registerInLinkerCache =>
                  ret[4].commands =
                      <<[kind |-> "ldcache",
                         directory |-> installPrefix \o Str_slash \o Str_lib]>>
            /\ EnvOf(ret) = env
            /\ ("LD_LIBRARY_PATH" \in DOMAIN EnvOf(ret)) <=> (Count(ret, "shell") = 0)

C8_Witness ==
    /\ Len(calls) > 0
    /\ calls[1].from = Str_stage1
    /\ registerInLinkerCache
    /\ "prefix" \in DOMAIN kwargs
    /\ Count(calls[1].ret, "shell") = 1

\* C9: no item of the cleanup step is the install prefix or a directory
\* containing it, whatever sourceDirectory, version and installPrefix are.
C9_CleanupSparesPrefix ==
    \A i \in Constructed :
        \A item \in Range(The(Steps(objs[i]), "cleanup").items) :
            ~PathContains(item, installPrefix)

\* C10: runtime calls leave every component as it was constructed, two
\* runtime calls with the same stage identifier return the same result, and
\* components constructed from the same description have the same recipe.
C10_Immutable ==
    /\ \A i \in Constructed :
          objs[i] = hdf5(kwargs, g_linux_distro).self
    /\ \A i, j \in Constructed : Recipe(objs[i]) = Recipe(objs[j])
    /\ \A c, d \in 1..Len(calls) :
          calls[c].from = calls[d].from => calls[c].ret = calls[d].ret

C10_Witness ==
    /\ Len(objs) = 2
    /\ Len(calls) = 2
    /\ calls[1].obj = 1
    /\ calls[2].obj = 1
    /\ calls[1].from = calls[2].from
    /\ calls[1].ret = calls[2].ret

=============================================================================
